---- MODULE Spec2Model ----
(***************************************************************************)
(* A model of utils/contour_analysis.py: the contour filters, the          *)
(* measurement builder (get_contour_measurements) and the aggregator       *)
(* (aggregate_measurements).                                               *)
(*                                                                         *)
(* A contour is a record of what the OpenCV primitives return for it:      *)
(*   id      its identity (its position in the list cv2.findContours gave) *)
(*   pts     its points, in order (the rows of the numpy array)            *)
(*   inside  the points p with cv2.pointPolygonTest(contour, p) = +1       *)
(*   edge    the points p with cv2.pointPolygonTest(contour, p) = 0        *)
(*   px      the sum of the image cv2.drawContours fills for it            *)
(*   hullpx  the same sum for cv2.convexHull(contour)                      *)
(* A float is an exact fraction <<numerator, denominator>>.                *)
(***************************************************************************)
EXTENDS Integers, Sequences, FiniteSets, TLC

VARIABLES
    parent_contours,   \* the list given as parent_contours / contours
    child_contours,    \* the list given as child_contours
    by_size,           \* the call of discard_contours_by_size and what it returned
    without,           \* the call of discard_contours_without_contours
    outside,           \* the call of discard_contours_outside_contours
    deformed,          \* the call of discard_overlapping_deformed_contours
    measured,          \* the call of get_contour_measurements
    classified,        \* the call of classify_agnor
    analyzed,          \* the call of analyze_contours
    unboxed,           \* the call of discard_unboxed_contours
    written,           \* the call of write_contour_measurements
    nucleus_file,      \* the file at the path nucleus_measurements
    agnor_file,        \* the file at the path agnor_measurements
    summary_file,      \* the file "<datetime> - Aggregate measurements - <name>.csv"
    database_file,     \* the file at the path database (with its .csv suffix)
    aggregated,        \* the call of aggregate_measurements on the specimen
    calls              \* the calls of aggregate_measurements made so far

contour_vars ==
    <<parent_contours, child_contours, by_size, without, outside, deformed, measured>>

pipeline_vars == <<classified, analyzed, unboxed, written>>

file_vars == <<nucleus_file, agnor_file, summary_file, database_file, aggregated, calls>>

vars == <<contour_vars, pipeline_vars, file_vars>>

---------------------------------------------------------------------------
(* Bounds of the model *)

MaxParents == 2
MaxChildren == 2
MaxStartIndex == 1
MaxNuclei == 3
MaxGroupRows == 6
MaxCalls == 3
MaxBoxes == 2

---------------------------------------------------------------------------
(* Module constants, contour_analysis.py lines 55-61 *)

MAX_NUCLEUS_PIXEL_COUNT == 67000
\* 0.02
MIN_NUCLEUS_PERCENT_PIXEL_COUNT == <<2, 100>>
MAX_NOR_PIXEL_COUNT == 3521
\* 0.0017
MIN_NOR_PERCENT_PIXEL_COUNT == <<17, 10000>>
\* 5.0
MAX_CONTOUR_PERCENT_DIFF == 5

---------------------------------------------------------------------------
(* Geometry primitives *)

\* cv2.pointPolygonTest(contour, point, False): +1 inside, 0 on an edge, -1 outside
pointPolygonTest(contour, point) ==
    IF point \in contour.inside THEN 1
    ELSE IF point \in contour.edge THEN 0
    ELSE -1

get_contour_pixel_count(contour) == contour.px

\* cv2.convexHull(contour): a new contour, which rasterises to hullpx pixels
convexHull(contour) == [contour EXCEPT !.px = contour.hullpx]

\* np.min / np.max of a non-empty list of integers
np_min(values) == CHOOSE v \in {values[i] : i \in 1..Len(values)} :
                      \A i \in 1..Len(values) : v <= values[i]
np_max(values) == CHOOSE v \in {values[i] : i \in 1..Len(values)} :
                      \A i \in 1..Len(values) : v >= values[i]

---------------------------------------------------------------------------
(* discard_contours_by_size *)

\* int((min_relative_pixel_count * max_pixel_count) / 100), line 199
min_pixel_count_of(min_relative_pixel_count, max_pixel_count) ==
    (min_relative_pixel_count[1] * max_pixel_count) \div (min_relative_pixel_count[2] * 100)

\* size_within with < in place of the second <=
size_within_exclusive(contour, max_pixel_count, min_relative_pixel_count) ==
    LET contour_pixel_count == get_contour_pixel_count(contour)
        min_pixel_count ==
            (min_relative_pixel_count[1] * max_pixel_count)
                \div (min_relative_pixel_count[2] * 100)
    IN  min_pixel_count <= contour_pixel_count /\ contour_pixel_count < max_pixel_count

\* the condition of line 200
size_within(contour, max_pixel_count, min_relative_pixel_count) ==
    LET contour_pixel_count == get_contour_pixel_count(contour)
        min_pixel_count == min_pixel_count_of(min_relative_pixel_count, max_pixel_count)
    IN  min_pixel_count <= contour_pixel_count /\ contour_pixel_count <= max_pixel_count

RECURSIVE by_size_loop(_, _, _, _, _, _)
by_size_loop(contours, i, max_pixel_count, min_relative_pixel_count, kept, discarded) ==
    IF i > Len(contours) THEN [kept |-> kept, discarded |-> discarded]
    ELSE IF size_within(contours[i], max_pixel_count, min_relative_pixel_count)
         THEN by_size_loop(contours, i + 1, max_pixel_count, min_relative_pixel_count,
                           Append(kept, contours[i]), discarded)
         ELSE by_size_loop(contours, i + 1, max_pixel_count, min_relative_pixel_count,
                           kept, Append(discarded, contours[i]))

discard_contours_by_size(contours, max_pixel_count, min_relative_pixel_count) ==
    by_size_loop(contours, 1, max_pixel_count, min_relative_pixel_count, <<>>, <<>>)

---------------------------------------------------------------------------
(* The containment filters *)

\* the loop over the child's points: some point has pointPolygonTest >= 0
has_point_inside(parent, child) ==
    \E k \in 1..Len(child.pts) : pointPolygonTest(parent, child.pts[k]) >= 0

\* lines 222-226: keep_parent after the loops over all children and their points
keep_parent_of(parent, children) ==
    \E j \in 1..Len(children) : has_point_inside(parent, children[j])

RECURSIVE without_loop(_, _, _, _, _)
without_loop(parents, children, i, kept, discarded) ==
    IF i > Len(parents) THEN [kept |-> kept, discarded |-> discarded]
    ELSE IF keep_parent_of(parents[i], children)
         THEN without_loop(parents, children, i + 1, Append(kept, parents[i]), discarded)
         ELSE without_loop(parents, children, i + 1, kept, Append(discarded, parents[i]))

discard_contours_without_contours(parents, children) ==
    without_loop(parents, children, 1, <<>>, <<>>)

\* keep_child_of with the loop over the parents left after its first turn
keep_child_of_first_parent(parents, child) ==
    Len(parents) >= 1 /\ has_point_inside(parents[1], child)

\* lines 251-258: keep_child after the loops over the parents, left at the first hit
keep_child_of(parents, child) ==
    \E i \in 1..Len(parents) : has_point_inside(parents[i], child)

\* outside_loop with discarded.append(child) outside of the else
RECURSIVE outside_loop_always_discards(_, _, _, _, _)
outside_loop_always_discards(parents, children, j, kept, discarded) ==
    IF j > Len(children) THEN [kept |-> kept, discarded |-> discarded]
    ELSE IF \E i \in 1..Len(parents) : has_point_inside(parents[i], children[j])
         THEN outside_loop_always_discards(parents, children, j + 1,
                  Append(kept, children[j]), Append(discarded, children[j]))
         ELSE outside_loop_always_discards(parents, children, j + 1,
                  kept, Append(discarded, children[j]))

\* lines 250-263: the loop over the children
RECURSIVE outside_loop(_, _, _, _, _)
outside_loop(parents, children, j, kept, discarded) ==
    IF j > Len(children) THEN [kept |-> kept, discarded |-> discarded]
    ELSE IF keep_child_of(parents, children[j])
         THEN outside_loop(parents, children, j + 1, Append(kept, children[j]), discarded)
         ELSE outside_loop(parents, children, j + 1, kept, Append(discarded, children[j]))

discard_contours_outside_contours(parents, children) ==
    outside_loop(parents, children, 1, <<>>, <<>>)

---------------------------------------------------------------------------
(* discard_overlapping_deformed_contours *)

\* lines 288-291: diff <= max_diff, with
\* diff = ((convex - count) / ((convex + count) / 2)) * 100, both counts >= 1
diff_within(contour, max_diff) ==
    LET contour_pixel_count == get_contour_pixel_count(contour)
        contour_convex_pixel_count == get_contour_pixel_count(convexHull(contour))
    IN  200 * (contour_convex_pixel_count - contour_pixel_count)
            <= max_diff * (contour_convex_pixel_count + contour_pixel_count)

RECURSIVE deformed_loop(_, _, _, _, _)
deformed_loop(contours, i, max_diff, kept, discarded) ==
    IF i > Len(contours) THEN [kept |-> kept, discarded |-> discarded]
    ELSE IF diff_within(contours[i], max_diff)
         THEN deformed_loop(contours, i + 1, max_diff, Append(kept, contours[i]), discarded)
         ELSE deformed_loop(contours, i + 1, max_diff, kept, Append(discarded, contours[i]))

discard_overlapping_deformed_contours(contours, max_diff) ==
    deformed_loop(contours, 1, max_diff, <<>>, <<>>)

---------------------------------------------------------------------------
(* get_contour_measurements *)

\* the fixed arguments of a call: mask_name, contours_flag, parent_type, child_type
\* (the other identifying columns are arguments copied into every row alike)
MaskName == "mask"
ContoursFlag == "valid"
ParentType == "nucleus"
ChildType == "cluster"

\* line 448-449; the field contour is not a column: it records which contour
\* the row was made from
parent_row(parent_contour, parent_id, parent_pixel_count) ==
    [source_image |-> MaskName, flag |-> ContoursFlag, nucleus |-> parent_id,
     nucleus_pixel_count |-> parent_pixel_count, type |-> ParentType,
     contour |-> parent_contour.id]

\* the child row with ids counted from 1
child_row_from_one(child_contour, parent_id, child_id, child_pixel_count, parent_pixel_count) ==
    [source_image |-> MaskName, flag |-> ContoursFlag, nucleus |-> parent_id,
     agnor |-> child_id + 1, agnor_pixel_count |-> child_pixel_count, type |-> ChildType,
     nucleus_ratio |-> <<child_pixel_count, parent_pixel_count>>,
     contour |-> child_contour.id]

\* lines 457-461; the row has no greatest_agnor_ratio and no smallest_agnor_ratio:
\* zip stops at the 13 features given
child_row(child_contour, parent_id, child_id, child_pixel_count, parent_pixel_count) ==
    [source_image |-> MaskName, flag |-> ContoursFlag, nucleus |-> parent_id,
     agnor |-> child_id, agnor_pixel_count |-> child_pixel_count, type |-> ChildType,
     nucleus_ratio |-> <<child_pixel_count, parent_pixel_count>>,
     contour |-> child_contour.id]

\* lines 453-463: the scan of the children for one parent
RECURSIVE children_loop(_, _, _, _, _, _, _)
children_loop(parent_contour, parent_id, parent_pixel_count, children, j, child_id, st) ==
    IF j > Len(children) THEN st
    ELSE IF has_point_inside(parent_contour, children[j])
         THEN LET child_pixel_count == get_contour_pixel_count(children[j])
              IN  children_loop(parent_contour, parent_id, parent_pixel_count, children,
                      j + 1, child_id + 1,
                      [st EXCEPT
                         !.contours_size = Append(@, child_pixel_count),
                         !.child_measurements = Append(@,
                             child_row(children[j], parent_id, child_id,
                                       child_pixel_count, parent_pixel_count))])
         ELSE children_loop(parent_contour, parent_id, parent_pixel_count, children,
                            j + 1, child_id, st)

\* lines 446-451: one turn of the loop over the parents, up to the scan of the
\* children; contours_size is bound to a new empty list in every turn
parent_turn(parent_contour, parent_id, st) ==
    [st EXCEPT
        !.parent_measurements = Append(@,
            parent_row(parent_contour, parent_id, get_contour_pixel_count(parent_contour))),
        !.contours_size = <<>>,
        !.contours_size_bound = TRUE]

RECURSIVE parents_loop(_, _, _, _, _)
parents_loop(parents, children, i, start_index, st) ==
    IF i > Len(parents) THEN st
    ELSE LET parent_id == start_index + i - 1
             parent_pixel_count == get_contour_pixel_count(parents[i])
         IN  parents_loop(parents, children, i + 1, start_index,
                 children_loop(parents[i], parent_id, parent_pixel_count, children, 1, 0,
                               parent_turn(parents[i], parent_id, st)))

\* lines 469-473: the two ratios added to every child row
with_ratios(record, max_contour_size, min_contour_size) ==
    record @@ [greatest_agnor_ratio |-> <<record.agnor_pixel_count, max_contour_size>>,
               smallest_agnor_ratio |-> <<record.agnor_pixel_count, min_contour_size>>]

\* lines 465-475: what follows the loop over the parents. Reading contours_size
\* when no turn of the loop bound it raises UnboundLocalError
after_parents(st) ==
    IF ~st.contours_size_bound
    THEN [raised |-> TRUE, parent_measurements |-> <<>>, child_measurements |-> <<>>]
    ELSE IF Len(st.contours_size) > 0
    THEN [raised |-> FALSE,
          parent_measurements |-> st.parent_measurements,
          child_measurements |->
              [k \in 1..Len(st.child_measurements) |->
                  with_ratios(st.child_measurements[k],
                              np_max(st.contours_size), np_min(st.contours_size))]]
    ELSE [raised |-> FALSE,
          parent_measurements |-> st.parent_measurements,
          child_measurements |-> st.child_measurements]

get_contour_measurements(parents, children, start_index) ==
    after_parents(
        parents_loop(parents, children, 1, start_index,
            [parent_measurements |-> <<>>, child_measurements |-> <<>>,
             contours_size |-> <<>>, contours_size_bound |-> FALSE]))

---------------------------------------------------------------------------
(* The contours of the model *)

Contour(id, pts, inside, edge, px, hullpx) ==
    [id |-> id, pts |-> pts, inside |-> inside, edge |-> edge, px |-> px, hullpx |-> hullpx]

\* three nuclei, each with its two corner points on its edge. The second one
\* overlaps the first: its corner <<2, 1>> is inside the first. The second one is
\* deformed (diff = 6.45), the third one is at diff = 5.0 exactly and larger than
\* MAX_NUCLEUS_PIXEL_COUNT
Nuclei ==
    { Contour(1, << <<0, 0>>, <<2, 2>> >>, {<<1, 1>>, <<2, 1>>}, {<<0, 0>>, <<2, 2>>},
              20, 20),
      Contour(2, << <<2, 1>>, <<4, 2>> >>, {<<3, 1>>}, {<<2, 1>>, <<4, 2>>},
              30, 32),
      Contour(3, << <<6, 6>>, <<8, 8>> >>, {<<7, 7>>}, {<<6, 6>>, <<8, 8>>},
              78000, 82000) }

\* four AgNORs: inside the first nucleus; inside the first and on the edge of the
\* second; inside the third with its second point only; outside every nucleus
AgNORs ==
    { Contour(11, << <<1, 1>> >>, {}, {<<1, 1>>}, 2, 2),
      Contour(12, << <<2, 1>> >>, {}, {<<2, 1>>}, 3, 3),
      Contour(13, << <<9, 9>>, <<7, 7>> >>, {}, {<<9, 9>>, <<7, 7>>}, 5, 5),
      Contour(14, << <<5, 0>> >>, {}, {<<5, 0>>}, 4, 4) }

\* the lists of at most n different contours of S
Lists(S, n) ==
    { s \in UNION { [1..k -> S] : k \in 0..n } :
        \A i, j \in 1..Len(s) : i # j => s[i] # s[j] }

NotCalled == [called |-> FALSE]

---------------------------------------------------------------------------
(* analyze_contours *)

\* the pixels at which the model looks at an image
Pixels == { <<x, y>> : x \in 0..6, y \in 0..2 } \cup {<<0, 4>>, <<8, 0>>}

\* the pixels cv2.drawContours(..., thickness=cv2.FILLED) sets for one contour: those
\* inside it and those on its edge
filled(contour) == (contour.inside \cup contour.edge) \cap Pixels

\* cv2.drawContours(image, contours, contourIdx=-1, color, thickness=cv2.FILLED)
\* on an image of zeros
RECURSIVE drawContours(_, _, _)
drawContours(contours, i, color) ==
    IF i > Len(contours) THEN [p \in Pixels |-> 0]
    ELSE LET image == drawContours(contours, i + 1, color)
         IN  [p \in Pixels |-> IF p \in filled(contours[i]) THEN color ELSE image[p]]

\* int(np.max(np.unique(mask))), on the set of the values of the mask
pixel_intensity_of(mask_values) ==
    CHOOSE v \in mask_values : \A w \in mask_values : v >= w

\* .astype(np.uint8)
uint8(v) == v % 256

\* the mask without line 380: the nucleus channel is left as drawn under the AgNORs
rebuild_mask_nucleus_under_nor(mask_values, nuclei, nors) ==
    LET pixel_intensity == pixel_intensity_of(mask_values)
        nucleus == drawContours(nuclei, 1, uint8(pixel_intensity))
        nor == drawContours(nors, 1, uint8(pixel_intensity))
        background == [p \in Pixels |->
                          IF nucleus[p] = 0 /\ nor[p] = 0 THEN pixel_intensity ELSE 0]
    IN  [p \in Pixels |-> <<uint8(background[p]), uint8(nucleus[p]), uint8(nor[p])>>]

\* lines 372-382 (and 704-714): the mask of three channels drawn from the kept
\* nuclei and AgNORs; each pixel is <<background, nucleus, nor>>
rebuild_mask(mask_values, nuclei, nors) ==
    LET pixel_intensity == pixel_intensity_of(mask_values)
        drawn_nucleus == drawContours(nuclei, 1, uint8(pixel_intensity))
        nor == drawContours(nors, 1, uint8(pixel_intensity))
        nucleus == [p \in Pixels |-> IF nor[p] # 0 THEN 0 ELSE drawn_nucleus[p]]
        background == [p \in Pixels |->
                          IF nucleus[p] = 0 /\ nor[p] = 0 THEN pixel_intensity ELSE 0]
    IN  [p \in Pixels |-> <<uint8(background[p]), uint8(nucleus[p]), uint8(nor[p])>>]

\* lines 78-113, smooth_contours: outcome gives, for the id of a contour, the list
\* of the smoothed contour, or the empty list when the fit raises, which drops the
\* contour
RECURSIVE smooth_contours(_, _, _)
smooth_contours(contours, i, outcome) ==
    IF i > Len(contours) THEN <<>>
    ELSE outcome[contours[i].id] \o smooth_contours(contours, i + 1, outcome)

\* the stages with the deformation filter before the filter on AgNORs
contour_stages_deformation_first(nuclei_contours, nors_contours) ==
    LET by_shape == discard_overlapping_deformed_contours(nuclei_contours,
                                                           MAX_CONTOUR_PERCENT_DIFF)
        with_nors == discard_contours_without_contours(by_shape.kept, nors_contours)
    IN  [nuclei_without_nors |-> with_nors.discarded,
         nuclei_contours_adequate |-> with_nors.kept,
         nuclei_overlapping_deformed |-> by_shape.discarded,
         nors_in_adequate_nuclei |->
             discard_contours_outside_contours(with_nors.kept, nors_contours).kept,
         nors_in_overlapping_deformed |->
             discard_contours_outside_contours(by_shape.discarded, nors_contours).kept]

\* lines 364-369: the nuclei with AgNORs, those of them that are adequate and those
\* that are overlapping or deformed, and the AgNORs of each of the two
contour_stages(nuclei_contours, nors_contours) ==
    LET with_nors == discard_contours_without_contours(nuclei_contours, nors_contours)
        by_shape == discard_overlapping_deformed_contours(with_nors.kept,
                                                           MAX_CONTOUR_PERCENT_DIFF)
    IN  [nuclei_without_nors |-> with_nors.discarded,
         nuclei_contours_adequate |-> by_shape.kept,
         nuclei_overlapping_deformed |-> by_shape.discarded,
         nors_in_adequate_nuclei |->
             discard_contours_outside_contours(by_shape.kept, nors_contours).kept,
         nors_in_overlapping_deformed |->
             discard_contours_outside_contours(by_shape.discarded, nors_contours).kept]

\* lines 384-401: the overlay. lines holds the lists drawn on it; the image is
\* dropped (None) by the test of line 400
contour_detail_of(nuclei_size_discarded, nors_size_discarded, stages) ==
    LET lines ==
            (IF Len(nuclei_size_discarded) > 0 THEN {"nuclei_size_discarded"} ELSE {})
            \cup (IF Len(stages.nuclei_without_nors) > 0 THEN {"nuclei_without_nors"} ELSE {})
            \cup (IF Len(nors_size_discarded) > 0 THEN {"nors_size_discarded"} ELSE {})
            \cup (IF Len(stages.nuclei_overlapping_deformed) > 0
                  THEN {"nuclei_overlapping_deformed"} ELSE {})
    IN  IF Len(stages.nuclei_overlapping_deformed) > 0
        THEN [is_none |-> FALSE, lines |-> lines]
        ELSE IF Len(nuclei_size_discarded) = 0 /\ Len(stages.nuclei_without_nors) = 0
        THEN [is_none |-> TRUE, lines |-> {}]
        ELSE [is_none |-> FALSE, lines |-> lines]

\* lines 340-404. nuclei and nors are what get_contours gives for the channels
\* nucleus + nor and nor of the mask, mask_values the values of the mask
analyze_contours(mask_values, nuclei, nors, smooth, outcome) ==
    LET nuclei_by_size == discard_contours_by_size(nuclei, MAX_NUCLEUS_PIXEL_COUNT,
                                                   MIN_NUCLEUS_PERCENT_PIXEL_COUNT)
        nors_by_size == discard_contours_by_size(nors, MAX_NOR_PIXEL_COUNT,
                                                 MIN_NOR_PERCENT_PIXEL_COUNT)
        nuclei_contours == IF smooth THEN smooth_contours(nuclei_by_size.kept, 1, outcome)
                           ELSE nuclei_by_size.kept
        stages == contour_stages(nuclei_contours, nors_by_size.kept)
        none_deformed == Len(stages.nuclei_overlapping_deformed) = 0
    IN  [updated_mask |-> rebuild_mask(mask_values, stages.nuclei_contours_adequate,
                                       stages.nors_in_adequate_nuclei),
         nuclei_contours_adequate |-> stages.nuclei_contours_adequate,
         nors_in_adequate_nuclei |-> stages.nors_in_adequate_nuclei,
         contour_detail |-> contour_detail_of(nuclei_by_size.discarded,
                                              nors_by_size.discarded, stages),
         nuclei_overlapping_deformed |->
             IF none_deformed THEN <<>> ELSE stages.nuclei_overlapping_deformed,
         nors_in_overlapping_deformed |->
             IF none_deformed THEN <<>> ELSE stages.nors_in_overlapping_deformed,
         nuclei_size_kept |-> nuclei_by_size.kept,
         nuclei_size_discarded |-> nuclei_by_size.discarded,
         nors_size_kept |-> nors_by_size.kept,
         nors_size_discarded |-> nors_by_size.discarded,
         nuclei_smoothed |-> nuclei_contours,
         nuclei_without_nors |-> stages.nuclei_without_nors]

---------------------------------------------------------------------------
(* discard_unboxed_contours *)

\* no prediction, and a prediction with the values given
NoPrediction == [is_none |-> TRUE]
PredictionOf(mask_values) == [is_none |-> FALSE, mask_values |-> mask_values]

\* lines 696-698, convert_bbox_to_contour: the contour of four points of the
\* rectangle with the corners <<x1, y1>> and <<x2, y2>>
convert_bbox_to_contour(x1, y1, x2, y2) ==
    LET covered == { p \in Pixels : x1 <= p[1] /\ p[1] <= x2 /\ y1 <= p[2] /\ p[2] <= y2 }
        interior == { p \in Pixels : x1 < p[1] /\ p[1] < x2 /\ y1 < p[2] /\ p[2] < y2 }
    IN  [id |-> <<x1, y1, x2, y2>>,
         pts |-> << <<x1, y1>>, <<x2, y1>>, <<x2, y2>>, <<x1, y2>> >>,
         inside |-> interior, edge |-> covered \ interior]

\* discard_unboxed_contours with the AgNORs tested against the rectangles
discard_unboxed_contours_by_rectangle(prediction, parents, children, bboxes) ==
    IF prediction.is_none
    THEN [prediction |-> prediction, parent_contours |-> parents,
          child_contours |-> children]
    ELSE LET kept_parents == discard_contours_outside_contours(bboxes, parents).kept
             kept_children == discard_contours_outside_contours(bboxes, children).kept
         IN  [prediction |-> [is_none |-> FALSE,
                              mask |-> rebuild_mask(prediction.mask_values,
                                                    kept_parents, kept_children)],
              parent_contours |-> kept_parents,
              child_contours |-> kept_children]

\* lines 677-716. bboxes are the rectangles of the annotation as contours
discard_unboxed_contours(prediction, parents, children, bboxes) ==
    IF prediction.is_none
    THEN [prediction |-> prediction, parent_contours |-> parents,
          child_contours |-> children]
    ELSE LET kept_parents == discard_contours_outside_contours(bboxes, parents).kept
             kept_children == discard_contours_outside_contours(kept_parents, children).kept
         IN  [prediction |-> [is_none |-> FALSE,
                              mask |-> rebuild_mask(prediction.mask_values,
                                                    kept_parents, kept_children)],
              parent_contours |-> kept_parents,
              child_contours |-> kept_children]

---------------------------------------------------------------------------
(* aggregate_measurements *)

\* a file that does not exist, and a file holding the rows given
Absent == [exists |-> FALSE, rows |-> <<>>]
FileOf(rows) == [exists |-> TRUE, rows |-> rows]

\* the header line of the cumulative table, and the line of one record
HeaderLine == [header |-> TRUE]
RecordLine(record) == [header |-> FALSE, record |-> record]

\* round(a / b, 2) in hundredths, b > 0: the nearest integer to 100 * a / b, the
\* even one of the two when both are equally near
round_2(a, b) ==
    LET q == (100 * a) \div b
        r == (100 * a) % b
    IN  IF 2 * r < b THEN q
        ELSE IF 2 * r > b THEN q + 1
        ELSE IF q % 2 = 0 THEN q ELSE q + 1

\* groupby with the key of the nucleus alone, without source_image
groupby_nucleus_only(df_agnor) ==
    LET keys == { <<"", df_agnor[i].nucleus>> : i \in 1..Len(df_agnor) }
    IN  [ key \in keys |->
            Cardinality({ i \in 1..Len(df_agnor) : df_agnor[i].nucleus = key[2] }) ]

\* line 555: df_agnor.groupby(["source_image", "nucleus"])["agnor"].count():
\* the number of rows of every (source_image, nucleus) that has rows
groupby_image_nucleus(df_agnor) ==
    LET keys == { <<df_agnor[i].source_image, df_agnor[i].nucleus>> : i \in 1..Len(df_agnor) }
    IN  [ key \in keys |->
            Cardinality({ i \in 1..Len(df_agnor) :
                            <<df_agnor[i].source_image, df_agnor[i].nucleus>> = key }) ]

\* line 556: groupby(["agnor"]).size(): for every number of rows that some group
\* has, the number of groups that have it
groupby_agnor_size(counts) ==
    [ n \in { counts[key] : key \in DOMAIN counts } |->
        Cardinality({ key \in DOMAIN counts : counts[key] = n }) ]

\* lines 558-573: the count of the groups of exactly n rows, 0 when there is none
nna_exactly(n_nuclei_with_n_agnors, n) ==
    IF n \in DOMAIN n_nuclei_with_n_agnors THEN n_nuclei_with_n_agnors[n] ELSE 0

RECURSIVE SumOver(_, _)
SumOver(f, S) ==
    IF S = {} THEN 0
    ELSE LET x == CHOOSE y \in S : TRUE IN f[x] + SumOver(f, S \ {x})

\* lines 574-577: the sum of the counts of the groups of 5 rows or more
nna_5_plus(n_nuclei_with_n_agnors) ==
    SumOver(n_nuclei_with_n_agnors, { n \in DOMAIN n_nuclei_with_n_agnors : n >= 5 })

\* lines 579-590: a percentage, as a fraction
nna_percent(nna, number_of_nucleus) ==
    IF number_of_nucleus > 0 THEN <<round_2(nna, number_of_nucleus), 100>> ELSE <<0, 1>>

\* lines 543 and 544: the rows whose type is the string "cluster" / "satellite"
number_of_clusters(df_agnor) ==
    Cardinality({ i \in 1..Len(df_agnor) : df_agnor[i].type = "cluster" })

number_of_satellites(df_agnor) ==
    Cardinality({ i \in 1..Len(df_agnor) : df_agnor[i].type = "satellite" })

\* lines 541-544 and 555-619: the record of the summary (the means and the median
\* of lines 546-553 are left out: they are NaN, without an error, on empty tables)
aggregate_record(df_nucleus, df_agnor) ==
    LET number_of_nucleus == Len(df_nucleus)
        n_nuclei_with_n_agnors == groupby_agnor_size(groupby_image_nucleus(df_agnor))
        nna1 == nna_exactly(n_nuclei_with_n_agnors, 1)
        nna2 == nna_exactly(n_nuclei_with_n_agnors, 2)
        nna3 == nna_exactly(n_nuclei_with_n_agnors, 3)
        nna4 == nna_exactly(n_nuclei_with_n_agnors, 4)
        nna5_plus == nna_5_plus(n_nuclei_with_n_agnors)
    IN  [patient_name |-> df_agnor[1].patient_name,
         number_of_nucleus |-> number_of_nucleus,
         number_of_agnors |-> Len(df_agnor),
         number_of_clusters |-> number_of_clusters(df_agnor),
         number_of_satellites |-> number_of_satellites(df_agnor),
         nna1 |-> nna1, nna2 |-> nna2, nna3 |-> nna3, nna4 |-> nna4,
         nna5_plus |-> nna5_plus,
         nna1_percent |-> nna_percent(nna1, number_of_nucleus),
         nna2_percent |-> nna_percent(nna2, number_of_nucleus),
         nna3_percent |-> nna_percent(nna3, number_of_nucleus),
         nna4_percent |-> nna_percent(nna4, number_of_nucleus),
         nna5_plus_percent |-> nna_percent(nna5_plus, number_of_nucleus)]

\* lines 625-635: os.remove of an input file that exists; the file stays when
\* os.remove raises, which is caught
remove_file(file, remove_measurement_files, remove_raises) ==
    IF remove_measurement_files /\ file.exists /\ ~remove_raises THEN Absent ELSE file

\* the cumulative table written with its header line by every call
write_database_with_header(file, database, record) ==
    IF database = "None" \/ database = "" THEN file
    ELSE FileOf(file.rows \o <<HeaderLine, RecordLine(record)>>)

\* lines 637-643: the record appended to the cumulative table, which is created
\* with its header when it does not exist; database is "None", "" or a path
write_database(file, database, record) ==
    IF database = "None" \/ database = "" THEN file
    ELSE IF file.exists THEN FileOf(Append(file.rows, RecordLine(record)))
    ELSE FileOf(<<HeaderLine, RecordLine(record)>>)

\* one operation on a file: to_csv (op "write" or "append") or os.remove, which
\* may raise
FileOp(op, file, raised) == [op |-> op, file |-> file, raised |-> raised]

\* lines 625-635: the os.remove calls made, in the order of the code
remove_operations(fs, remove_measurement_files, raises) ==
    IF ~remove_measurement_files THEN <<>>
    ELSE (IF fs.nucleus.exists THEN <<FileOp("remove", "nucleus", raises.nucleus)>> ELSE <<>>)
         \o (IF fs.agnor.exists THEN <<FileOp("remove", "agnor", raises.agnor)>> ELSE <<>>)

\* lines 637-643: the to_csv call on the cumulative table
database_operations(fs, database) ==
    IF database = "None" \/ database = "" THEN <<>>
    ELSE IF fs.database.exists THEN <<FileOp("append", "database", FALSE)>>
    ELSE <<FileOp("write", "database", FALSE)>>

\* lines 621-643: the file operations of a call that reaches line 621, in the
\* order in which the code makes them
file_operations(fs, remove_measurement_files, database, raises) ==
    <<FileOp("write", "summary", FALSE)>>
    \o remove_operations(fs, remove_measurement_files, raises)
    \o database_operations(fs, database)

\* the result of a call that stops before line 621
stop_with(fs, returned) ==
    [returned |-> returned, nucleus |-> fs.nucleus, agnor |-> fs.agnor,
     summary |-> fs.summary, database |-> fs.database, log |-> <<>>]

\* aggregate_measurements with the two os.remove calls in one try block: when the
\* first raises the second is not made
aggregate_measurements_one_try(fs, remove_measurement_files, database, raises) ==
    IF ~fs.nucleus.exists THEN stop_with(fs, "False")
    ELSE IF ~fs.agnor.exists THEN stop_with(fs, "False")
    ELSE IF Len(fs.agnor.rows) = 0 THEN stop_with(fs, "raised")
    ELSE LET record == aggregate_record(fs.nucleus.rows, fs.agnor.rows)
             one == [nucleus |-> raises.nucleus, agnor |-> raises.nucleus \/ raises.agnor]
         IN  [returned |-> "True",
              nucleus |-> remove_file(fs.nucleus, remove_measurement_files, one.nucleus),
              agnor |-> remove_file(fs.agnor, remove_measurement_files, one.agnor),
              summary |-> FileOf(<<HeaderLine, RecordLine(record)>>),
              database |-> write_database(fs.database, database, record),
              log |-> file_operations(fs, remove_measurement_files, database, raises)]

\* aggregate_measurements with the input files removed before they are looked for
aggregate_measurements_removes_first(fs, remove_measurement_files, database, raises) ==
    IF ~fs.nucleus.exists \/ ~fs.agnor.exists
    THEN [stop_with(fs, "False") EXCEPT
            !.nucleus = remove_file(fs.nucleus, remove_measurement_files, raises.nucleus),
            !.agnor = remove_file(fs.agnor, remove_measurement_files, raises.agnor)]
    ELSE IF Len(fs.agnor.rows) = 0 THEN stop_with(fs, "raised")
    ELSE LET record == aggregate_record(fs.nucleus.rows, fs.agnor.rows)
         IN  [returned |-> "True",
              nucleus |-> remove_file(fs.nucleus, remove_measurement_files, raises.nucleus),
              agnor |-> remove_file(fs.agnor, remove_measurement_files, raises.agnor),
              summary |-> FileOf(<<HeaderLine, RecordLine(record)>>),
              database |-> write_database(fs.database, database, record),
              log |-> file_operations(fs, remove_measurement_files, database, raises)]

\* lines 530-645. fs holds the four files; raises tells which os.remove raises.
\* With both files there and no row in the AgNOR table, iloc[0] of line 593
\* raises IndexError: nothing is written, nothing is removed
aggregate_measurements(fs, remove_measurement_files, database, raises) ==
    IF ~fs.nucleus.exists THEN stop_with(fs, "False")
    ELSE IF ~fs.agnor.exists THEN stop_with(fs, "False")
    ELSE IF Len(fs.agnor.rows) = 0 THEN stop_with(fs, "raised")
    ELSE LET record == aggregate_record(fs.nucleus.rows, fs.agnor.rows)
         IN  [returned |-> "True",
              nucleus |-> remove_file(fs.nucleus, remove_measurement_files, raises.nucleus),
              agnor |-> remove_file(fs.agnor, remove_measurement_files, raises.agnor),
              summary |-> FileOf(<<HeaderLine, RecordLine(record)>>),
              database |-> write_database(fs.database, database, record),
              log |-> file_operations(fs, remove_measurement_files, database, raises)]

---------------------------------------------------------------------------
(* classify_agnor *)

\* the labels 0 and 1 that predict returns. A value of the type column is written
\* as Python prints it: the column holds the text "cluster" in the rows of
\* get_contour_measurements and the numbers 0 and 1 after line 671
Labels == {"0", "1"}

\* lines 659-664
features_list ==
    {"agnor_pixel_count", "nucleus_ratio", "smallest_agnor_ratio", "greatest_agnor_ratio"}

\* the union of the keys of the rows
RECURSIVE KeysOf(_, _)
KeysOf(rows, i) ==
    IF i > Len(rows) THEN {} ELSE DOMAIN rows[i] \cup KeysOf(rows, i + 1)

\* line 666, pd.DataFrame.from_dict(contours): one column per key of the rows, one
\* value per row, NaN where a row does not have the key
from_dict(rows) ==
    [ c \in KeysOf(rows, 1) |->
        [ i \in 1..Len(rows) |-> IF c \in DOMAIN rows[i] THEN rows[i][c] ELSE "NaN" ] ]

\* line 671, df["type"] = predictions: the column is replaced, or added
set_type(df, predictions) ==
    [ c \in DOMAIN df \cup {"type"} |-> IF c = "type" THEN predictions ELSE df[c] ]

\* the rows of the frame in reverse order
to_dict_values_reversed(df, n) ==
    [ i \in 1..n |-> [ c \in DOMAIN df |-> df[c][n + 1 - i] ] ]

\* line 673, list(df.T.to_dict().values()): one dict per row, in row order, with
\* one entry per column
to_dict_values(df, n) ==
    [ i \in 1..n |-> [ c \in DOMAIN df |-> df[c][i] ] ]

\* lines 648-674. model_loads: joblib.load(model_path) returns a classifier;
\* predictions: what its predict returns for the rows. df[features_list] raises
\* KeyError when a feature is no column, joblib.load raises when it cannot load
classify_agnor(model_loads, predictions, contours) ==
    IF Len(contours) = 0
    THEN [raised |-> FALSE, loaded |-> FALSE, contours |-> contours]
    ELSE LET df == from_dict(contours)
         IN  IF ~(features_list \subseteq DOMAIN df)
             THEN [raised |-> TRUE, loaded |-> FALSE, contours |-> <<>>]
             ELSE IF ~model_loads
             THEN [raised |-> TRUE, loaded |-> FALSE, contours |-> <<>>]
             ELSE [raised |-> FALSE, loaded |-> TRUE,
                   contours |-> to_dict_values(set_type(df, predictions), Len(contours))]

---------------------------------------------------------------------------
(* The tables of the model *)

\* a nucleus table of n rows
NucleusTable(n) == [ i \in 1..n |-> [source_image |-> "a", nucleus |-> i - 1] ]

\* the rows of one (source_image, nucleus) group: n rows, agnor = 0 .. n-1, of
\* the type given, or the first one a cluster and the others satellites
GroupRows(key, n, typing) ==
    [ i \in 1..n |->
        [patient_name |-> "unknown", source_image |-> key[1], nucleus |-> key[2],
         agnor |-> i - 1,
         type |-> IF typing = "mixed"
                  THEN (IF i = 1 THEN "cluster" ELSE "satellite")
                  ELSE typing] ]

\* the groups of two images; nucleus 0 is in both
GroupKeys == << <<"a", 0>>, <<"a", 1>>, <<"b", 0>> >>

RECURSIVE TableOf(_, _, _, _)
TableOf(keys, sizes, k, typing) ==
    IF k > Len(keys) THEN <<>>
    ELSE GroupRows(keys[k], sizes[k], typing) \o TableOf(keys, sizes, k + 1, typing)

AgnorTables ==
    { TableOf(GroupKeys, sizes, 1, typing) :
        sizes \in [1..Len(GroupKeys) -> 0..MaxGroupRows], typing \in {"cluster", "mixed"} }

\* the table of section 8 of the specification: nine nuclei of one image with
\* 1, 1, 2, 2, 2, 3, 4, 5 and 6 AgNORs, in a specimen of ten nuclei
ExampleSizes == <<1, 1, 2, 2, 2, 3, 4, 5, 6>>
ExampleAgnorTable ==
    TableOf([k \in 1..Len(ExampleSizes) |-> <<"a", k - 1>>], ExampleSizes, 1, "mixed")
ExampleNucleusTable == NucleusTable(Len(ExampleSizes) + 1)

\* the cumulative table of an earlier specimen
EarlierDatabase == FileOf(<<HeaderLine, RecordLine([patient_name |-> "earlier"])>>)

NoFiles ==
    /\ nucleus_file = Absent
    /\ agnor_file = Absent
    /\ summary_file = Absent
    /\ database_file = Absent
    /\ aggregated = NotCalled
    /\ calls = <<>>

NoPipeline ==
    /\ classified = NotCalled
    /\ analyzed = NotCalled
    /\ unboxed = NotCalled
    /\ written = NotCalled

---------------------------------------------------------------------------
(* write_contour_measurements (lines 478-509). Of the columns of lines 19-47  *)
(* the tables here have those the rows of get_contour_measurements carry; the *)
(* other identifying columns hold arguments copied into every row alike.      *)

\* lines 19-30
NUCLEUS_COLUMNS == {"source_image", "flag", "nucleus", "nucleus_pixel_count", "type"}

\* lines 32-47
AGNOR_COLUMNS ==
    {"source_image", "flag", "nucleus", "agnor", "agnor_pixel_count", "type",
     "nucleus_ratio", "greatest_agnor_ratio", "smallest_agnor_ratio"}

\* the value pandas gives a column that a record does not have
NaN == "NaN"

\* pd.DataFrame(records, columns=columns): one row per record, with the listed
\* columns only; a key of the record that is no column is dropped
DataFrame(records, columns) ==
    [k \in 1..Len(records) |->
        [c \in columns |-> IF c \in DOMAIN records[k] THEN records[k][c] ELSE NaN]]

\* df[column] = value with a scalar: every row gets the value in that column
set_column(df, column, value) ==
    [k \in 1..Len(df) |->
        [c \in DOMAIN df[k] \cup {column} |-> IF c = column THEN value ELSE df[k][c]]]

\* df[column].unique(): the values of the column, each once, in order of appearance
RECURSIVE unique(_, _, _)
unique(df, column, k) ==
    IF k > Len(df) THEN <<>>
    ELSE LET rest == unique(df, column, k + 1)
         IN  <<df[k][column]>> \o SelectSeq(rest, LAMBDA v : v # df[k][column])

\* lines 501-504 and 506-509: to_csv appends the rows without a header to the
\* file that exists, and writes the header and the rows to a new file otherwise
\* (the rows of a file are its lines after the header, as pd.read_csv gives them)
to_csv(file, df) ==
    IF file.exists THEN FileOf(file.rows \o df) ELSE FileOf(df)

\* lines 490-509; nucleus and agnor are the files at the two paths of lines
\* 498-499. Line 493 takes element 0 of the unique nucleus ids of the parent
\* table (IndexError when the table has no row) and stores it in every AgNOR row
write_contour_measurements(parent_measurements, child_measurements, nucleus, agnor, datetime) ==
    LET df_parent == DataFrame(parent_measurements, NUCLEUS_COLUMNS)
        df_child == DataFrame(child_measurements, AGNOR_COLUMNS)
        ids == unique(df_parent, "nucleus", 1)
    IN  IF Len(ids) = 0
        THEN [raised |-> TRUE, nucleus |-> nucleus, agnor |-> agnor]
        ELSE [raised |-> FALSE,
              nucleus |-> to_csv(nucleus, set_column(df_parent, "datetime", datetime)),
              agnor |-> to_csv(agnor, set_column(set_column(df_child, "nucleus", ids[1]),
                                                 "datetime", datetime))]

---------------------------------------------------------------------------
(* The calls *)

Init ==
    /\ parent_contours \in Lists(Nuclei, MaxParents)
    /\ child_contours \in Lists(AgNORs, MaxChildren)
    /\ by_size = NotCalled
    /\ without = NotCalled
    /\ outside = NotCalled
    /\ deformed = NotCalled
    /\ measured = NotCalled
    /\ NoPipeline
    /\ NoFiles

\* a call of discard_contours_by_size, with the nucleus or the AgNOR thresholds
\* (the two calls of analyze_contours, lines 354 and 357)
DiscardContoursBySize ==
    /\ ~by_size.called
    /\ \E list \in {"parents", "children"}, profile \in {"nucleus", "nor"} :
          LET contours == IF list = "parents" THEN parent_contours ELSE child_contours
              max_pixel_count == IF profile = "nucleus" THEN MAX_NUCLEUS_PIXEL_COUNT
                                 ELSE MAX_NOR_PIXEL_COUNT
              min_relative_pixel_count ==
                  IF profile = "nucleus" THEN MIN_NUCLEUS_PERCENT_PIXEL_COUNT
                  ELSE MIN_NOR_PERCENT_PIXEL_COUNT
              r == discard_contours_by_size(contours, max_pixel_count, min_relative_pixel_count)
          IN  by_size' = [called |-> TRUE, contours |-> contours,
                          max_pixel_count |-> max_pixel_count,
                          min_relative_pixel_count |-> min_relative_pixel_count,
                          kept |-> r.kept, discarded |-> r.discarded]
    /\ UNCHANGED <<parent_contours, child_contours, without, outside, deformed, measured>>
    /\ UNCHANGED <<pipeline_vars, file_vars>>

DiscardContoursWithoutContours ==
    /\ ~without.called
    /\ LET r == discard_contours_without_contours(parent_contours, child_contours)
       IN  without' = [called |-> TRUE, kept |-> r.kept, discarded |-> r.discarded]
    /\ UNCHANGED <<parent_contours, child_contours, by_size, outside, deformed, measured>>
    /\ UNCHANGED <<pipeline_vars, file_vars>>

DiscardContoursOutsideContours ==
    /\ ~outside.called
    /\ LET r == discard_contours_outside_contours(parent_contours, child_contours)
       IN  outside' = [called |-> TRUE, kept |-> r.kept, discarded |-> r.discarded]
    /\ UNCHANGED <<parent_contours, child_contours, by_size, without, deformed, measured>>
    /\ UNCHANGED <<pipeline_vars, file_vars>>

DiscardOverlappingDeformedContours ==
    /\ ~deformed.called
    /\ LET r == discard_overlapping_deformed_contours(parent_contours, MAX_CONTOUR_PERCENT_DIFF)
       IN  deformed' = [called |-> TRUE, kept |-> r.kept, discarded |-> r.discarded]
    /\ UNCHANGED <<parent_contours, child_contours, by_size, without, outside, measured>>
    /\ UNCHANGED <<pipeline_vars, file_vars>>

GetContourMeasurements ==
    /\ ~measured.called
    /\ \E start_index \in 0..MaxStartIndex :
          LET r == get_contour_measurements(parent_contours, child_contours, start_index)
          IN  measured' = [called |-> TRUE, start_index |-> start_index,
                           raised |-> r.raised,
                           parent_measurements |-> r.parent_measurements,
                           child_measurements |-> r.child_measurements]
    /\ UNCHANGED <<parent_contours, child_contours, by_size, without, outside, deformed>>
    /\ UNCHANGED <<pipeline_vars, file_vars>>

Next ==
    \/ DiscardContoursBySize
    \/ DiscardContoursWithoutContours
    \/ DiscardContoursOutsideContours
    \/ DiscardOverlappingDeformedContours
    \/ GetContourMeasurements

Spec == Init /\ [][Next]_vars

---------------------------------------------------------------------------
(* get_contour_measurements called a second time, on other parents, with a     *)
(* start_index that goes on from the first call: the number of its parents, or *)
(* its start_index plus that number                                            *)

GetContourMeasurementsAgain ==
    /\ measured.called /\ ~measured.raised
    /\ "again" \notin DOMAIN measured
    /\ \E parents \in Lists(Nuclei, MaxParents),
          start_index \in {Len(measured.parent_measurements),
                           measured.start_index + Len(measured.parent_measurements)} :
          LET r == get_contour_measurements(parents, child_contours, start_index)
          IN  measured' = measured @@
                  [again |-> [start_index |-> start_index, parents |-> parents,
                              raised |-> r.raised,
                              parent_measurements |-> r.parent_measurements,
                              child_measurements |-> r.child_measurements]]
    /\ UNCHANGED <<parent_contours, child_contours, by_size, without, outside, deformed>>
    /\ UNCHANGED <<pipeline_vars, file_vars>>

NextIds == GetContourMeasurements \/ GetContourMeasurementsAgain

SpecIds == Init /\ [][NextIds]_vars

---------------------------------------------------------------------------
(* classify_agnor on the AgNOR rows of get_contour_measurements *)

ClassifyAgnor ==
    /\ measured.called /\ ~measured.raised
    /\ ~classified.called
    /\ \E model_loads \in BOOLEAN,
          predictions \in [1..Len(measured.child_measurements) -> Labels] :
          LET r == classify_agnor(model_loads, predictions, measured.child_measurements)
          IN  classified' = [called |-> TRUE, model_loads |-> model_loads,
                             predictions |-> predictions,
                             contours |-> measured.child_measurements,
                             raised |-> r.raised, loaded |-> r.loaded,
                             returned |-> r.contours]
    /\ UNCHANGED <<contour_vars, analyzed, unboxed, written, file_vars>>

NextClassify == GetContourMeasurements \/ ClassifyAgnor

SpecClassify == Init /\ [][NextClassify]_vars

---------------------------------------------------------------------------
(* write_contour_measurements on the rows of get_contour_measurements, into *)
(* files that do not exist yet or that hold the rows of an earlier image    *)

\* the datetime argument of the run, and the one of an earlier run
Datetime == "202611041200"

EarlierNucleusFile ==
    FileOf(<<[source_image |-> "earlier", flag |-> ContoursFlag, nucleus |-> 0,
              nucleus_pixel_count |-> 100, type |-> ParentType, datetime |-> Datetime]>>)

EarlierAgnorFile ==
    FileOf(<<[source_image |-> "earlier", flag |-> ContoursFlag, nucleus |-> 0, agnor |-> 0,
              agnor_pixel_count |-> 5, type |-> ChildType, nucleus_ratio |-> <<5, 100>>,
              greatest_agnor_ratio |-> <<5, 5>>, smallest_agnor_ratio |-> <<5, 5>>,
              datetime |-> Datetime]>>)

InitWrite ==
    /\ parent_contours \in Lists(Nuclei, MaxParents)
    /\ child_contours \in Lists(AgNORs, MaxChildren)
    /\ by_size = NotCalled
    /\ without = NotCalled
    /\ outside = NotCalled
    /\ deformed = NotCalled
    /\ measured = NotCalled
    /\ NoPipeline
    /\ \E found \in {<<Absent, Absent>>, <<EarlierNucleusFile, EarlierAgnorFile>>} :
          /\ nucleus_file = found[1]
          /\ agnor_file = found[2]
    /\ summary_file = Absent
    /\ database_file = Absent
    /\ aggregated = NotCalled
    /\ calls = <<>>

\* the lists the caller has for the image: those get_contour_measurements
\* returned, and empty lists as long as it has returned none
MeasurementsSoFar ==
    IF measured.called /\ ~measured.raised
    THEN [parent_measurements |-> measured.parent_measurements,
          child_measurements |-> measured.child_measurements]
    ELSE [parent_measurements |-> <<>>, child_measurements |-> <<>>]

WriteContourMeasurements ==
    /\ ~written.called
    /\ LET given == MeasurementsSoFar
           r == write_contour_measurements(given.parent_measurements,
                                           given.child_measurements,
                                           nucleus_file, agnor_file, Datetime)
       IN  /\ written' = [called |-> TRUE, raised |-> r.raised,
                          parent_measurements |-> given.parent_measurements,
                          child_measurements |-> given.child_measurements,
                          nucleus_found |-> nucleus_file, agnor_found |-> agnor_file]
           /\ nucleus_file' = r.nucleus
           /\ agnor_file' = r.agnor
    /\ UNCHANGED <<contour_vars, classified, analyzed, unboxed>>
    /\ UNCHANGED <<summary_file, database_file, aggregated, calls>>

NextWrite == GetContourMeasurements \/ WriteContourMeasurements

SpecWrite == InitWrite /\ [][NextWrite]_vars

---------------------------------------------------------------------------
(* analyze_contours on the contours of a mask *)

\* the nuclei cv2.findContours gives for the channels nucleus + nor: the outer
\* contours of different connected components, so no point of one is inside or on
\* the edge of another. The first is adequate and has <<2, 1>> on its edge, the
\* second is deformed (diff = 6.45), the third is below the size floor of 13,
\* the fourth is adequate and has no AgNOR
ImageNuclei ==
    { Contour(1, << <<0, 0>>, <<2, 2>> >>, {<<1, 1>>}, {<<0, 0>>, <<2, 2>>, <<2, 1>>},
              20000, 20000),
      Contour(2, << <<4, 0>>, <<6, 2>> >>, {<<5, 1>>}, {<<4, 0>>, <<6, 2>>},
              3000, 3200),
      Contour(3, << <<8, 0>> >>, {}, {<<8, 0>>}, 10, 10),
      Contour(4, << <<0, 4>> >>, {}, {<<0, 4>>}, 2000, 2050) }

\* the AgNORs cv2.findContours gives for the channel nor: two in the first
\* nucleus, the second of them at its border; one in the second nucleus; one in
\* the first nucleus above MAX_NOR_PIXEL_COUNT
ImageNors ==
    { Contour(11, << <<1, 1>> >>, {}, {<<1, 1>>}, 50, 50),
      Contour(12, << <<2, 1>> >>, {}, {<<2, 1>>}, 60, 60),
      Contour(13, << <<5, 1>> >>, {}, {<<5, 1>>}, 70, 70),
      Contour(14, << <<0, 0>> >>, {}, {<<0, 0>>}, 4000, 4000) }

\* what smooth_contours can make of a nucleus: a polygon of 40 points sampled on
\* the fitted spline, with truncated coordinates. It keeps the id of the contour
\* it is made from. The polygon of the second nucleus may cut across the gap to
\* the first one (its second variant has <<2, 1>> on its edge) and may lose the
\* concavity that made it deformed (its third variant)
Smoothed(id) ==
    IF id = 1
    THEN { Contour(1, << <<0, 0>>, <<1, 2>>, <<2, 2>> >>, {<<1, 1>>},
                   {<<0, 0>>, <<1, 2>>, <<2, 2>>, <<2, 1>>}, 19900, 20000) }
    ELSE IF id = 2
    THEN { Contour(2, << <<4, 0>>, <<6, 2>>, <<5, 2>> >>, {<<5, 1>>},
                   {<<4, 0>>, <<6, 2>>, <<5, 2>>}, 2990, 3200),
           Contour(2, << <<3, 0>>, <<6, 2>> >>, {<<5, 1>>, <<3, 1>>},
                   {<<3, 0>>, <<2, 1>>, <<6, 2>>}, 3050, 3250),
           Contour(2, << <<4, 0>>, <<6, 2>> >>, {<<5, 1>>}, {<<4, 0>>, <<6, 2>>},
                   3150, 3200) }
    ELSE IF id = 4
    THEN { Contour(4, << <<0, 4>> >>, {}, {<<0, 4>>}, 2000, 2050) }
    ELSE {}

\* the outcomes of smooth_contours on the nuclei: for each of them the list of
\* its smoothed contour, or the empty list (the fit raised)
Smoothings(nuclei) ==
    LET ids == { nuclei[i].id : i \in 1..Len(nuclei) }
        lists == {<<>>} \cup { <<c>> : c \in UNION { Smoothed(id) : id \in ids } }
    IN  { outcome \in [ids -> lists] :
            \A id \in ids : outcome[id] = <<>> \/ outcome[id][1] \in Smoothed(id) }

\* the levels of a mask: each pixel has one channel at the level and two at 0
MaskLevels == {1, 255}

\* every AgNOR of the channel nor is in a component of the channels nucleus + nor
InitAnalyze ==
    /\ parent_contours \in Lists(ImageNuclei, MaxParents)
    /\ child_contours \in Lists(ImageNors, MaxChildren)
    /\ \A j \in 1..Len(child_contours) :
          \E i \in 1..Len(parent_contours) :
              has_point_inside(parent_contours[i], child_contours[j])
    /\ by_size = NotCalled
    /\ without = NotCalled
    /\ outside = NotCalled
    /\ deformed = NotCalled
    /\ measured = NotCalled
    /\ NoPipeline
    /\ NoFiles

\* a behaviour makes one call on the contours of the image: analyze_contours or
\* discard_unboxed_contours
AnalyzeContours ==
    /\ ~analyzed.called /\ ~unboxed.called
    /\ \E level \in MaskLevels, smooth \in BOOLEAN, outcome \in Smoothings(parent_contours) :
          analyzed' = [called |-> TRUE, mask_values |-> {0, level}, smooth |-> smooth]
                      @@ analyze_contours({0, level}, parent_contours, child_contours,
                                          smooth, outcome)
    /\ UNCHANGED <<contour_vars, classified, unboxed, written, file_vars>>

\* the rectangles of an annotation: around the corner <<0, 0>> of the first
\* nucleus and its AgNOR at <<1, 1>>; around the AgNOR of the second nucleus and
\* none of the points of that nucleus; around the first and the second nucleus
Rectangles ==
    { convert_bbox_to_contour(0, 0, 1, 1),
      convert_bbox_to_contour(5, 1, 5, 2),
      convert_bbox_to_contour(0, 0, 6, 2) }

DiscardUnboxedContours ==
    /\ ~unboxed.called /\ ~analyzed.called
    /\ \E prediction \in {NoPrediction} \cup { PredictionOf({0, level}) : level \in MaskLevels },
          bboxes \in Lists(Rectangles, MaxBoxes) :
          LET r == discard_unboxed_contours(prediction, parent_contours, child_contours,
                                            bboxes)
          IN  unboxed' = [called |-> TRUE, given |-> prediction, bboxes |-> bboxes,
                          prediction |-> r.prediction,
                          parent_contours |-> r.parent_contours,
                          child_contours |-> r.child_contours]
    /\ UNCHANGED <<contour_vars, classified, analyzed, written, file_vars>>

NextAnalyze == AnalyzeContours \/ DiscardUnboxedContours

SpecAnalyze == InitAnalyze /\ [][NextAnalyze]_vars

---------------------------------------------------------------------------
(* discard_contours_by_size at its thresholds: the contours are drawn from the *)
(* pixel counts around the two floors (13.4 and 0.0599) and the two maxima     *)

PixelCounts == {1, 12, 13, 14, 3521, 3522, 67000, 67001}

SizedContours == { Contour(n, << <<0, 0>> >>, {}, {<<0, 0>>}, n, n) : n \in PixelCounts }

InitSize ==
    /\ parent_contours \in Lists(SizedContours, MaxParents)
    /\ child_contours = <<>>
    /\ by_size = NotCalled
    /\ without = NotCalled
    /\ outside = NotCalled
    /\ deformed = NotCalled
    /\ measured = NotCalled
    /\ NoPipeline
    /\ NoFiles

NextSize == DiscardContoursBySize

SpecSize == InitSize /\ [][NextSize]_vars

---------------------------------------------------------------------------
(* aggregate_measurements on the files of a specimen *)

InitAggregate ==
    /\ parent_contours = <<>>
    /\ child_contours = <<>>
    /\ by_size = NotCalled
    /\ without = NotCalled
    /\ outside = NotCalled
    /\ deformed = NotCalled
    /\ measured = NotCalled
    /\ NoPipeline
    /\ calls = <<>>
    /\ \/ /\ nucleus_file \in {Absent} \cup { FileOf(NucleusTable(n)) : n \in 0..MaxNuclei }
          /\ agnor_file \in {Absent} \cup { FileOf(t) : t \in AgnorTables }
       \/ /\ nucleus_file = FileOf(ExampleNucleusTable)
          /\ agnor_file = FileOf(ExampleAgnorTable)
    /\ summary_file = Absent
    /\ database_file \in {Absent, EarlierDatabase}
    /\ aggregated = NotCalled

AggregateMeasurements ==
    /\ ~aggregated.called
    /\ \E remove_measurement_files \in BOOLEAN,
          database \in {"None", "", "database"},
          raises \in [nucleus : BOOLEAN, agnor : BOOLEAN] :
          LET r == aggregate_measurements(
                       [nucleus |-> nucleus_file, agnor |-> agnor_file,
                        summary |-> summary_file, database |-> database_file],
                       remove_measurement_files, database, raises)
          IN  /\ nucleus_file' = r.nucleus
              /\ agnor_file' = r.agnor
              /\ summary_file' = r.summary
              /\ database_file' = r.database
              /\ aggregated' = [called |-> TRUE, returned |-> r.returned,
                                remove_measurement_files |-> remove_measurement_files,
                                database |-> database,
                                log |-> r.log,
                                df_nucleus |-> nucleus_file.rows,
                                df_agnor |-> agnor_file.rows]
              /\ calls' = Append(calls, [returned |-> r.returned, database |-> database,
                                         found |-> database_file,
                                         rows |-> IF r.returned = "True"
                                                  THEN <<r.summary.rows[2]>> ELSE <<>>])
    /\ UNCHANGED <<contour_vars, pipeline_vars>>

NextAggregate == AggregateMeasurements

SpecAggregate == InitAggregate /\ [][NextAggregate]_vars

---------------------------------------------------------------------------
(* aggregate_measurements called specimen after specimen with one cumulative *)
(* table: after a call the two tables of the next specimen take the place of *)
(* those of the last one                                                     *)

\* the AgNOR tables of the specimens: one nucleus, with one AgNOR or with two
SpecimenTables == { TableOf(<< <<"a", 0>> >>, <<k>>, 1, "cluster") : k \in 1..2 }

SpecimenFiles ==
    /\ nucleus_file' = FileOf(NucleusTable(1))
    /\ agnor_file' \in {Absent} \cup { FileOf(t) : t \in SpecimenTables }
    /\ summary_file' = Absent

InitDatabase ==
    /\ parent_contours = <<>>
    /\ child_contours = <<>>
    /\ by_size = NotCalled
    /\ without = NotCalled
    /\ outside = NotCalled
    /\ deformed = NotCalled
    /\ measured = NotCalled
    /\ NoPipeline
    /\ nucleus_file = FileOf(NucleusTable(1))
    /\ agnor_file \in {Absent} \cup { FileOf(t) : t \in SpecimenTables }
    /\ summary_file = Absent
    /\ database_file \in {Absent, EarlierDatabase}
    /\ aggregated = NotCalled
    /\ calls = <<>>

\* the measurement files of the next specimen are written
NextSpecimen ==
    /\ aggregated.called
    /\ Len(calls) < MaxCalls
    /\ SpecimenFiles
    /\ aggregated' = NotCalled
    /\ UNCHANGED <<database_file, calls, contour_vars, pipeline_vars>>

NextDatabase == AggregateMeasurements \/ NextSpecimen

SpecDatabase == InitDatabase /\ [][NextDatabase]_vars

---------------------------------------------------------------------------
(* Helpers of the properties *)

Range(s) == { s[i] : i \in 1..Len(s) }

\* equality of two fractions
FracEq(a, b) == a[1] * b[2] = b[1] * a[2]

\* the elements of list that are in S, in the order of list
Restrict(list, S) == SelectSeq(list, LAMBDA c : c \in S)

\* kept and discarded hold each contour of input exactly once between them,
\* nothing else, each in the order of input (the contours of input are distinct)
IsPartition(input, kept, discarded) ==
    /\ Range(kept) \cap Range(discarded) = {}
    /\ Range(kept) \cup Range(discarded) = Range(input)
    /\ kept = Restrict(input, Range(kept))
    /\ discarded = Restrict(input, Range(discarded))

\* the child rows made from one contour
RowsOf(contour) ==
    { k \in 1..Len(measured.child_measurements) :
        measured.child_measurements[k].contour = contour.id }

\* the parents that have a point of the contour inside or on their edge
ParentsOf(contour) ==
    { i \in 1..Len(parent_contours) :
        \E k \in 1..Len(contour.pts) :
            contour.pts[k] \in parent_contours[i].inside \cup parent_contours[i].edge }

Returned == measured.called /\ ~measured.raised

AllChildPixelCounts ==
    { measured.child_measurements[k].agnor_pixel_count :
        k \in 1..Len(measured.child_measurements) }

---------------------------------------------------------------------------
(* C1: in get_contour_measurements each child contour produces at most one    *)
(* child row, also when it has points inside two or more parents.             *)
C1_OneRowPerChild ==
    Returned =>
        \A j \in 1..Len(child_contours) : Cardinality(RowsOf(child_contours[j])) <= 1

(* C2: the two ratios of a child row are its agnor_pixel_count divided by the  *)
(* maximum, and by the minimum, child pixel count over all the child rows of   *)
(* the call.                                                                   *)
C2_GlobalRatios ==
    Returned =>
        \A k \in 1..Len(measured.child_measurements) :
            LET row == measured.child_measurements[k]
                gmax == CHOOSE v \in AllChildPixelCounts :
                            \A w \in AllChildPixelCounts : w <= v
                gmin == CHOOSE v \in AllChildPixelCounts :
                            \A w \in AllChildPixelCounts : v <= w
            IN  "greatest_agnor_ratio" \in DOMAIN row =>
                    /\ FracEq(row.greatest_agnor_ratio, <<row.agnor_pixel_count, gmax>>)
                    /\ FracEq(row.smallest_agnor_ratio, <<row.agnor_pixel_count, gmin>>)

(* C3: whenever get_contour_measurements returns at least one child row, every *)
(* child row carries greatest_agnor_ratio and smallest_agnor_ratio.            *)
C3_RatiosPresent ==
    Returned =>
        \A k \in 1..Len(measured.child_measurements) :
            {"greatest_agnor_ratio", "smallest_agnor_ratio"}
                \subseteq DOMAIN measured.child_measurements[k]

(* C4: empty inputs never cause an error: get_contour_measurements with an     *)
(* empty parent list or an empty child list returns empty records for the      *)
(* empty side without raising and without dividing by zero, and each filter    *)
(* given an empty list returns two empty lists.                                *)
C4_EmptyInputs ==
    /\ (measured.called /\ (parent_contours = <<>> \/ child_contours = <<>>)) =>
          /\ ~measured.raised
          /\ parent_contours = <<>> => measured.parent_measurements = <<>>
          /\ measured.child_measurements = <<>>
    /\ Returned =>
          \A k \in 1..Len(measured.child_measurements) :
              LET row == measured.child_measurements[k]
              IN  /\ row.nucleus_ratio[2] # 0
                  /\ "greatest_agnor_ratio" \in DOMAIN row =>
                        row.greatest_agnor_ratio[2] # 0 /\ row.smallest_agnor_ratio[2] # 0
    /\ (by_size.called /\ by_size.contours = <<>>) =>
          by_size.kept = <<>> /\ by_size.discarded = <<>>
    /\ (without.called /\ parent_contours = <<>>) =>
          without.kept = <<>> /\ without.discarded = <<>>
    /\ (outside.called /\ child_contours = <<>>) =>
          outside.kept = <<>> /\ outside.discarded = <<>>
    /\ (deformed.called /\ parent_contours = <<>>) =>
          deformed.kept = <<>> /\ deformed.discarded = <<>>

(* C5: every filter returns (kept, discarded) such that each input contour is  *)
(* in exactly one of the two lists, exactly once, no other contour is in them, *)
(* and each list is in the input order.                                        *)
C5_Partition ==
    /\ by_size.called => IsPartition(by_size.contours, by_size.kept, by_size.discarded)
    /\ without.called => IsPartition(parent_contours, without.kept, without.discarded)
    /\ outside.called => IsPartition(child_contours, outside.kept, outside.discarded)
    /\ deformed.called => IsPartition(parent_contours, deformed.kept, deformed.discarded)

\* every filter was called and each one kept a contour and discarded another
C5_Witness ==
    /\ by_size.called /\ by_size.kept # <<>> /\ by_size.discarded # <<>>
    /\ without.called /\ without.kept # <<>> /\ without.discarded # <<>>
    /\ outside.called /\ outside.kept # <<>> /\ outside.discarded # <<>>
    /\ deformed.called /\ deformed.kept # <<>> /\ deformed.discarded # <<>>

\* the smallest integer that is at least a / b
CeilDiv(a, b) == (a + b - 1) \div b

C7_ContainmentSymmetry ==
    (outside.called /\ measured.called) =>
        \A j \in 1..Len(child_contours) :
            LET child == child_contours[j]
            IN  /\ ParentsOf(child) = {} =>
                      child \in Range(outside.discarded) /\ RowsOf(child) = {}
                /\ child \in Range(outside.kept) <=> RowsOf(child) # {}

\* both functions returned, one child is kept and has a row, another one is
\* outside every parent
C7_Witness ==
    /\ outside.called /\ Returned
    /\ \E j \in 1..Len(child_contours) :
          child_contours[j] \in Range(outside.kept) /\ RowsOf(child_contours[j]) # {}
    /\ \E j \in 1..Len(child_contours) :
          ParentsOf(child_contours[j]) = {} /\ child_contours[j] \in Range(outside.discarded)

---------------------------------------------------------------------------
(* Helpers of the properties of aggregate_measurements *)

\* the record of the summary file written by the call
SummaryRecord == summary_file.rows[2].record

AggregateReturned == aggregated.called /\ aggregated.returned = "True"

\* the (source_image, nucleus) pairs of the AgNOR table the call read
GroupsRead ==
    { <<aggregated.df_agnor[i].source_image, aggregated.df_agnor[i].nucleus>> :
        i \in 1..Len(aggregated.df_agnor) }

RowsOfGroup(key) ==
    Cardinality({ i \in 1..Len(aggregated.df_agnor) :
        /\ aggregated.df_agnor[i].source_image = key[1]
        /\ aggregated.df_agnor[i].nucleus = key[2] })

GroupsOfSize(k) == Cardinality({ key \in GroupsRead : RowsOfGroup(key) = k })
GroupsOfSizeAtLeast(k) == Cardinality({ key \in GroupsRead : RowsOfGroup(key) >= k })

\* the counts of the record are those of the groups
CountsAreGroupCounts ==
    /\ SummaryRecord.nna1 = GroupsOfSize(1)
    /\ SummaryRecord.nna2 = GroupsOfSize(2)
    /\ SummaryRecord.nna3 = GroupsOfSize(3)
    /\ SummaryRecord.nna4 = GroupsOfSize(4)
    /\ SummaryRecord.nna5_plus = GroupsOfSizeAtLeast(5)

\* the five (count, percentage) pairs of the record
CountsAndPercents ==
    { <<SummaryRecord.nna1, SummaryRecord.nna1_percent>>,
      <<SummaryRecord.nna2, SummaryRecord.nna2_percent>>,
      <<SummaryRecord.nna3, SummaryRecord.nna3_percent>>,
      <<SummaryRecord.nna4, SummaryRecord.nna4_percent>>,
      <<SummaryRecord.nna5_plus, SummaryRecord.nna5_plus_percent>> }

\* the record of the example of section 8
ExampleRecord ==
    /\ SummaryRecord.nna1 = 2 /\ FracEq(SummaryRecord.nna1_percent, <<2, 10>>)
    /\ SummaryRecord.nna2 = 3 /\ FracEq(SummaryRecord.nna2_percent, <<3, 10>>)
    /\ SummaryRecord.nna3 = 1 /\ FracEq(SummaryRecord.nna3_percent, <<1, 10>>)
    /\ SummaryRecord.nna4 = 1 /\ FracEq(SummaryRecord.nna4_percent, <<1, 10>>)
    /\ SummaryRecord.nna5_plus = 2 /\ FracEq(SummaryRecord.nna5_plus_percent, <<2, 10>>)

ExampleRead ==
    /\ aggregated.df_agnor = ExampleAgnorTable
    /\ aggregated.df_nucleus = ExampleNucleusTable

(* C8 as stated: NNAk is the number of (source_image, nucleus) groups of the    *)
(* AgNOR table with exactly k rows, NNA5+ the number of groups with 5 rows or   *)
(* more; each percentage is that count divided by the number of rows of the     *)
(* nucleus table, and 0 when the nucleus table has no rows.                     *)
C8_CountsAndExactPercents ==
    AggregateReturned =>
        /\ CountsAreGroupCounts
        /\ \A cp \in CountsAndPercents :
              IF Len(aggregated.df_nucleus) > 0
              THEN FracEq(cp[2], <<cp[1], Len(aggregated.df_nucleus)>>)
              ELSE cp[2][1] = 0

(* C8 as amended: NNAk is the number of (source_image, nucleus) groups of the   *)
(* AgNOR table with exactly k rows, NNA5+ the number of groups with 5 rows or   *)
(* more; each percentage is that count divided by the number of rows of the     *)
(* nucleus table and rounded to two decimals (a multiple of 0.01 at most 0.005  *)
(* away from the quotient), and 0 when the nucleus table has no rows. For group *)
(* sizes [1,1,2,2,2,3,4,5,6] and 10 nuclei this gives 2, 3, 1, 1, 2 and         *)
(* count/10.                                                                    *)
C8_CountsAndRoundedPercents ==
    AggregateReturned =>
        /\ CountsAreGroupCounts
        /\ \A cp \in CountsAndPercents :
              LET n == Len(aggregated.df_nucleus)
                  d == 100 * cp[1] - cp[2][1] * n
              IN  IF n > 0
                  THEN cp[2][2] = 100 /\ 2 * d <= n /\ -2 * d <= n
                  ELSE cp[2][1] = 0
        /\ ExampleRead => ExampleRecord

\* the call read the tables of the example and wrote its record
C8_Witness == AggregateReturned /\ ExampleRead /\ ExampleRecord

(* C9: when either per-object table file is missing, aggregate_measurements     *)
(* returns False without raising, writes neither the summary file nor the       *)
(* cumulative table, and deletes no input file, also with                       *)
(* remove_measurement_files set.                                                *)
C9_MissingInput ==
    [][ (~aggregated.called /\ aggregated'.called
            /\ (~nucleus_file.exists \/ ~agnor_file.exists))
        => /\ aggregated'.returned = "False"
           /\ UNCHANGED <<nucleus_file, agnor_file, summary_file, database_file>> ]_vars

\* a call with remove_measurement_files set and a cumulative table path found
\* the nucleus table but no AgNOR table, and returned False
C9_Witness ==
    /\ aggregated.called /\ aggregated.returned = "False"
    /\ aggregated.remove_measurement_files /\ aggregated.database = "database"
    /\ nucleus_file.exists /\ ~agnor_file.exists
    /\ ~summary_file.exists

(* C10: aggregate_measurements never raises: for every pair of existing tables, *)
(* also an AgNOR table with a header and no rows, the call returns a boolean.   *)
C10_NeverRaises ==
    aggregated.called => aggregated.returned \in {"True", "False"}

\* the positions of the log of a call at which os.remove was called on the file
RemovalsOf(log, file) ==
    { k \in 1..Len(log) : log[k].op = "remove" /\ log[k].file = file }

\* the file after a call whose log is given: removed by an os.remove that did not
\* raise, as it was otherwise
AfterRemovals(before, log, file) ==
    IF \E k \in RemovalsOf(log, file) : ~log[k].raised THEN Absent ELSE before

(* C11: in aggregate_measurements with remove_measurement_files set, an input   *)
(* table is removed only after the summary file has been written; a call that   *)
(* reaches the summary calls os.remove on both tables, also when the first call *)
(* raises, a raising os.remove leaves its file and nothing else changes, the    *)
(* cumulative table is written after the removals, and the call returns True.   *)
C11_RemoveAfterSummary ==
    [][ (~aggregated.called /\ aggregated'.called /\ aggregated'.remove_measurement_files)
        => LET log == aggregated'.log
               removals == RemovalsOf(log, "nucleus") \cup RemovalsOf(log, "agnor")
           IN  /\ \A k \in removals :
                     /\ \E j \in 1..(k - 1) : log[j] = FileOp("write", "summary", FALSE)
                     /\ summary_file'.exists
               /\ nucleus_file' = AfterRemovals(nucleus_file, log, "nucleus")
               /\ agnor_file' = AfterRemovals(agnor_file, log, "agnor")
               /\ (nucleus_file.exists /\ agnor_file.exists /\ Len(agnor_file.rows) > 0)
                     => /\ aggregated'.returned = "True"
                        /\ RemovalsOf(log, "nucleus") # {}
                        /\ RemovalsOf(log, "agnor") # {}
                        /\ aggregated'.database = "database"
                              => /\ log[Len(log)].file = "database"
                                 /\ Len(log) > 1 + Cardinality(removals)
                                 /\ database_file'.exists
                                 /\ database_file'.rows[Len(database_file'.rows)]
                                        = summary_file'.rows[2] ]_vars

\* os.remove raised on the nucleus table and not on the AgNOR table: the nucleus
\* table is still there, the AgNOR table is gone, the cumulative table has the
\* record and the call returned True
C11_Witness ==
    /\ aggregated.called /\ aggregated.returned = "True"
    /\ \E k \in RemovalsOf(aggregated.log, "nucleus") : aggregated.log[k].raised
    /\ \E k \in RemovalsOf(aggregated.log, "agnor") : ~aggregated.log[k].raised
    /\ nucleus_file.exists /\ ~agnor_file.exists
    /\ aggregated.database = "database"
    /\ database_file.rows[Len(database_file.rows)] = summary_file.rows[2]

---------------------------------------------------------------------------
(* Helpers of the properties of the cumulative table *)

\* the cumulative table as the first call found it
DatabaseFound == IF calls = <<>> THEN database_file ELSE calls[1].found

\* the summary rows of the calls that returned True and were given the path, in
\* call order
RECURSIVE RowsGiven(_)
RowsGiven(k) ==
    IF k = 0 THEN <<>>
    ELSE RowsGiven(k - 1)
         \o (IF calls[k].returned = "True" /\ calls[k].database = "database"
             THEN calls[k].rows ELSE <<>>)

HeaderLines(file) == { k \in 1..Len(file.rows) : file.rows[k] = HeaderLine }

(* C12: after any sequence of aggregate_measurements calls the cumulative table *)
(* is what the first call found (or, when that was no file and a call has       *)
(* written, one header line) followed by one summary row per call that returned *)
(* True with the path, in call order; it has exactly one header line, its first *)
(* line; calls without a path (None or "") add nothing.                         *)
C12_OneHeaderThenRows ==
    LET rows == RowsGiven(Len(calls))
    IN  /\ database_file =
              IF DatabaseFound.exists THEN FileOf(DatabaseFound.rows \o rows)
              ELSE IF rows = <<>> THEN Absent
              ELSE FileOf(<<HeaderLine>> \o rows)
        /\ database_file.exists => HeaderLines(database_file) = {1}

\* three calls on a path that was no file: the first without the path, the
\* second and the third with it and with different records; the file is the
\* header and the two rows in call order
C12_Witness ==
    /\ Len(calls) = 3 /\ ~calls[1].found.exists
    /\ calls[1].returned = "True" /\ calls[1].database \in {"None", ""}
    /\ calls[2].returned = "True" /\ calls[2].database = "database"
    /\ calls[3].returned = "True" /\ calls[3].database = "database"
    /\ calls[2].rows # calls[3].rows
    /\ database_file.rows = <<HeaderLine>> \o calls[2].rows \o calls[3].rows

---------------------------------------------------------------------------
(* Helpers of the properties of classify_agnor *)

\* the rows given to classify_agnor expose its four features
HasFeatures(rows) == \A i \in 1..Len(rows) : features_list \subseteq DOMAIN rows[i]

\* classify_agnor returned rows for rows it was given
Classified ==
    /\ classified.called /\ ~classified.raised
    /\ Len(classified.contours) > 0

PredictionsOf(label) ==
    { i \in 1..Len(classified.predictions) : classified.predictions[i] = label }

(* C13: after classify_agnor on a non-empty set of rows with labels in {0, 1},  *)
(* the type of every returned row is the string "cluster" where the label is 0  *)
(* and "satellite" where it is 1, and the counts of lines 543 and 544 over the  *)
(* returned rows are the numbers of 0 and of 1 predictions.                     *)
C13_TypeIsClusterOrSatellite ==
    Classified =>
        /\ \A i \in 1..Len(classified.returned) :
              classified.returned[i].type =
                  (IF classified.predictions[i] = "0" THEN "cluster" ELSE "satellite")
        /\ number_of_clusters(classified.returned) = Cardinality(PredictionsOf("0"))
        /\ number_of_satellites(classified.returned) = Cardinality(PredictionsOf("1"))

(* C14: classify_agnor on an empty input returns it unchanged without loading   *)
(* the classifier, also when the classifier cannot be loaded; on a non-empty    *)
(* input of rows with the four features and a classifier that loads it returns  *)
(* as many rows, in the same order, each with the fields of its input row and   *)
(* every field other than type unchanged.                                       *)
C14_OnlyTypeWritten ==
    classified.called =>
        LET rows == classified.contours
            returned == classified.returned
        IN  /\ Len(rows) = 0
                  => ~classified.raised /\ ~classified.loaded /\ returned = rows
            /\ (Len(rows) > 0 /\ HasFeatures(rows) /\ classified.model_loads)
                  => /\ ~classified.raised
                     /\ Len(returned) = Len(rows)
                     /\ \A i \in 1..Len(rows) :
                           /\ DOMAIN returned[i] = DOMAIN rows[i]
                           /\ \A c \in DOMAIN rows[i] \ {"type"} :
                                 returned[i][c] = rows[i][c]
                           /\ returned[i].type = classified.predictions[i]

\* two rows of different AgNORs were classified with different labels
C14_Witness ==
    /\ Classified /\ classified.loaded
    /\ Len(classified.returned) = 2
    /\ classified.returned[1].contour # classified.returned[2].contour
    /\ classified.predictions = <<"1", "0">>

---------------------------------------------------------------------------
(* Helpers of the properties of analyze_contours and discard_unboxed_contours *)

Ids(contours) == { contours[i].id : i \in 1..Len(contours) }

\* some contour of the list has a point of the contour inside it or on its edge
InSome(parents, contour) ==
    \E i \in 1..Len(parents) : has_point_inside(parents[i], contour)

\* the pixels filled for the contours of a list
FilledBy(contours) == UNION { filled(contours[i]) : i \in 1..Len(contours) }

\* the greatest value of a set of mask values
MaxOf(mask_values) == CHOOSE v \in mask_values : \A w \in mask_values : v >= w

\* every pixel of the mask has the level in one channel and 0 in the two others:
\* the nor channel where a kept AgNOR is filled, else the nucleus channel where a
\* kept nucleus is filled, else the background channel
OneChannel(mask, level, nuclei, nors) ==
    \A p \in Pixels :
        /\ Cardinality({ k \in 1..3 : mask[p][k] # 0 }) = 1
        /\ mask[p] = IF p \in FilledBy(nors) THEN <<0, 0, level>>
                     ELSE IF p \in FilledBy(nuclei) THEN <<0, level, 0>>
                     ELSE <<level, 0, 0>>

(* C15: analyze_contours returns an overlay that is not None exactly when one   *)
(* of the four lists is not empty: the size-discarded nuclei, the               *)
(* size-discarded AgNORs, the nuclei without AgNOR, the overlapping or deformed *)
(* nuclei.                                                                      *)
C15_OverlayIffDiscards ==
    analyzed.called =>
        (~analyzed.contour_detail.is_none
            <=> \/ Len(analyzed.nuclei_size_discarded) > 0
                \/ Len(analyzed.nors_size_discarded) > 0
                \/ Len(analyzed.nuclei_without_nors) > 0
                \/ Len(analyzed.nuclei_overlapping_deformed) > 0)

(* C16: discard_unboxed_contours with a prediction that is not None keeps a     *)
(* nucleus exactly when it has a point inside (or on the edge of) a rectangle,  *)
(* and keeps an AgNOR exactly when it has a point inside (or on the edge of) a  *)
(* rectangle.                                                                   *)
C16_KeptIffInRectangle ==
    (unboxed.called /\ ~unboxed.given.is_none) =>
        /\ \A i \in 1..Len(parent_contours) :
              parent_contours[i] \in Range(unboxed.parent_contours)
                  <=> InSome(unboxed.bboxes, parent_contours[i])
        /\ \A j \in 1..Len(child_contours) :
              child_contours[j] \in Range(unboxed.child_contours)
                  <=> InSome(unboxed.bboxes, child_contours[j])

(* C18: the mask rebuilt by analyze_contours and by discard_unboxed_contours    *)
(* has at every pixel exactly one channel that is not zero: nor where a kept    *)
(* AgNOR covers the pixel, else nucleus where a kept nucleus covers it, else    *)
(* background; its value is the greatest value of the source mask.              *)
C18_OneChannelPerPixel ==
    /\ analyzed.called =>
          OneChannel(analyzed.updated_mask, MaxOf(analyzed.mask_values),
                     analyzed.nuclei_contours_adequate, analyzed.nors_in_adequate_nuclei)
    /\ (unboxed.called /\ ~unboxed.given.is_none) =>
          OneChannel(unboxed.prediction.mask, MaxOf(unboxed.given.mask_values),
                     unboxed.parent_contours, unboxed.child_contours)

\* a mask of level 255 was rebuilt with a pixel of each of the three channels:
\* <<1, 1>> is of a kept AgNOR inside a kept nucleus, <<0, 0>> of that nucleus only
C18_Witness ==
    /\ analyzed.called /\ analyzed.mask_values = {0, 255}
    /\ analyzed.updated_mask[<<1, 1>>] = <<0, 0, 255>>
    /\ analyzed.updated_mask[<<0, 0>>] = <<0, 255, 0>>
    /\ analyzed.updated_mask[<<5, 1>>] = <<255, 0, 0>>
    /\ <<1, 1>> \in FilledBy(analyzed.nuclei_contours_adequate)

(* C19: in analyze_contours no AgNOR is both in the AgNORs of the adequate      *)
(* nuclei and in the AgNORs of the overlapping or deformed nuclei.              *)
C19_OneBucket ==
    analyzed.called =>
        Range(analyzed.nors_in_adequate_nuclei)
            \cap Range(analyzed.nors_in_overlapping_deformed) = {}

(* C20: analyze_contours applies the size filters, then smooths the nuclei only *)
(* when smooth is set, then keeps the nuclei with AgNORs, then splits them by   *)
(* shape, then restricts the AgNORs to each part: every adequate and every      *)
(* deformed nucleus is (the smoothed contour of) a nucleus that passed the size *)
(* filter and has a point of a size-kept AgNOR inside; no nucleus is adequate   *)
(* and deformed; every AgNOR returned passed the size filter and is as          *)
(* extracted; every adequate nucleus has an AgNOR in the returned list.         *)
C20_StageOrder ==
    analyzed.called =>
        LET adequate == analyzed.nuclei_contours_adequate
            deformed_nuclei == analyzed.nuclei_overlapping_deformed
            nors == analyzed.nors_in_adequate_nuclei
            nors_deformed == analyzed.nors_in_overlapping_deformed
        IN  /\ \A n \in Range(adequate) \cup Range(deformed_nuclei) :
                  /\ n.id \in Ids(analyzed.nuclei_size_kept)
                  /\ n.id \notin Ids(analyzed.nuclei_size_discarded)
                  /\ IF analyzed.smooth THEN n \in Smoothed(n.id)
                     ELSE n \in Range(analyzed.nuclei_size_kept)
                  /\ \E j \in 1..Len(analyzed.nors_size_kept) :
                        has_point_inside(n, analyzed.nors_size_kept[j])
            /\ Range(adequate) \cap Range(deformed_nuclei) = {}
            /\ Ids(adequate) \cap Ids(deformed_nuclei) = {}
            /\ \A c \in Range(nors) \cup Range(nors_deformed) :
                  /\ c \in Range(analyzed.nors_size_kept)
                  /\ c \notin Range(analyzed.nors_size_discarded)
                  /\ c \in Range(child_contours)
            /\ \A i \in 1..Len(adequate) :
                  \E j \in 1..Len(nors) : has_point_inside(adequate[i], nors[j])

\* with smoothing, one nucleus came out adequate and one deformed, each with an
\* AgNOR, and an AgNOR was discarded by size
C20_Witness ==
    /\ analyzed.called /\ analyzed.smooth
    /\ Len(analyzed.nuclei_contours_adequate) = 1
    /\ Len(analyzed.nuclei_overlapping_deformed) = 1
    /\ Len(analyzed.nors_in_adequate_nuclei) > 0
    /\ Len(analyzed.nors_in_overlapping_deformed) > 0

---------------------------------------------------------------------------
(* Helpers of the properties of the ids *)

\* the parent rows of a call have the ids start_index, start_index + 1, ... and
\* are those of the parents, one each, in their order
ParentIdsFrom(rows, parents, start_index) ==
    /\ Len(rows) = Len(parents)
    /\ \A i \in 1..Len(rows) :
          rows[i].nucleus = start_index + i - 1 /\ rows[i].contour = parents[i].id

\* the position of the contour of a child row in the child list
ChildPosition(row) == CHOOSE j \in 1..Len(child_contours) : child_contours[j].id = row.contour

\* the child rows of each parent id have the ids 0, 1, 2, ... in the order of the
\* child list
ChildIdsFromZero(rows) ==
    \A parent_id \in { rows[k].nucleus : k \in 1..Len(rows) } :
        LET of_parent == SelectSeq(rows, LAMBDA row : row.nucleus = parent_id)
        IN  \A k \in 1..Len(of_parent) :
                /\ of_parent[k].agnor = k - 1
                /\ k > 1 => ChildPosition(of_parent[k - 1]) < ChildPosition(of_parent[k])

ParentIds(rows) == { rows[i].nucleus : i \in 1..Len(rows) }

MeasuredAgain == measured.called /\ "again" \in DOMAIN measured /\ ~measured.again.raised

(* C17 as stated: the parents get the ids start_index, start_index + 1, ... in  *)
(* input order, one row each; the children of one parent get 0, 1, 2, ... in    *)
(* child input order; a second call with start_index equal to the number of     *)
(* parents of the first call has parent ids disjoint from those of the first.   *)
C17_IdsAndSecondCallAtCount ==
    /\ Returned =>
          /\ ParentIdsFrom(measured.parent_measurements, parent_contours,
                           measured.start_index)
          /\ ChildIdsFromZero(measured.child_measurements)
    /\ (MeasuredAgain /\ measured.again.start_index = Len(measured.parent_measurements))
          => ParentIds(measured.parent_measurements)
                 \cap ParentIds(measured.again.parent_measurements) = {}

(* C17 as amended: the parents get the ids start_index, start_index + 1, ... in *)
(* input order, one row each; the children of one parent get 0, 1, 2, ... in    *)
(* child input order; a second call with start_index equal to the start_index   *)
(* of the first call plus the number of its parents has parent ids disjoint     *)
(* from those of the first.                                                     *)
C17_IdsAndSecondCallAfterLast ==
    /\ Returned =>
          /\ ParentIdsFrom(measured.parent_measurements, parent_contours,
                           measured.start_index)
          /\ ChildIdsFromZero(measured.child_measurements)
    /\ MeasuredAgain =>
          /\ ParentIdsFrom(measured.again.parent_measurements, measured.again.parents,
                           measured.again.start_index)
          /\ ChildIdsFromZero(measured.again.child_measurements)
          /\ measured.again.start_index
                  = measured.start_index + Len(measured.parent_measurements)
                => ParentIds(measured.parent_measurements)
                       \cap ParentIds(measured.again.parent_measurements) = {}

\* a first call from 1 on two parents, one of them with two children, and a
\* second call from 3 on two parents
C17_Witness ==
    /\ MeasuredAgain
    /\ measured.start_index = 1 /\ Len(measured.parent_measurements) = 2
    /\ \E k \in 1..Len(measured.child_measurements) : measured.child_measurements[k].agnor = 1
    /\ measured.again.start_index = 3
    /\ ParentIds(measured.again.parent_measurements) = {3, 4}

---------------------------------------------------------------------------
(* write_contour_measurements *)

\* the rows the call added to the AgNOR table
WrittenAgnorRows ==
    SubSeq(agnor_file.rows, Len(written.agnor_found.rows) + 1, Len(agnor_file.rows))

\* the (source_image, nucleus) pairs of the AgNOR rows given to the call
NucleiWithAgnors ==
    { <<written.child_measurements[k].source_image, written.child_measurements[k].nucleus>> :
        k \in 1..Len(written.child_measurements) }

\* the call returned and every row it added has the nucleus id of the row given
WrittenWithGivenNucleus ==
    /\ ~written.raised
    /\ Len(WrittenAgnorRows) = Len(written.child_measurements)
    /\ \A k \in 1..Len(written.child_measurements) :
          WrittenAgnorRows[k].nucleus = written.child_measurements[k].nucleus

\* grouping the written table gives the groups of the table found and one group
\* per nucleus of the call that has AgNORs
OneGroupPerNucleus ==
    DOMAIN groupby_image_nucleus(agnor_file.rows) =
        DOMAIN groupby_image_nucleus(written.agnor_found.rows) \cup NucleiWithAgnors

(* C21: write_contour_measurements writes every AgNOR row with the nucleus id  *)
(* it has in the list given (the id get_contour_measurements gave it), so that *)
(* grouping the written AgNOR table by (source_image, nucleus) gives one group *)
(* per nucleus that has AgNORs, also when the call writes the rows of several  *)
(* nuclei; and the call does not raise when the parent list is empty.          *)
C21_WrittenRowsKeepNucleus ==
    written.called => WrittenWithGivenNucleus /\ OneGroupPerNucleus

====
